---- MODULE Spec2Model ----
(***************************************************************************)
(* Model of src/rules/preferConstEnumRule.ts (tslint rule                   *)
(* "prefer-const-enum"): ReturnWalker walks a source file once, tracks     *)
(* every enum declaration in the map _enums, clears an enum's canBeConst   *)
(* on unsafe usages and non-constant initializers, and after the walk      *)
(* reports one failure (with a fix inserting "const ") per occurrence of   *)
(* every enum that is not const yet and can be.                            *)
(*                                                                         *)
(* The source file is revealed one top-level statement at a time: the      *)
(* variable sourceFile holds the statements walked so far, so the          *)
(* behaviours of Spec are exactly the walks over all source files of at    *)
(* most MaxNodes statements drawn from Declarations and UsageStatements.   *)
(***************************************************************************)
EXTENDS Integers, Sequences, FiniteSets, TLC

VARIABLES sourceFile, enums, evals, failures, pc

vars == <<sourceFile, enums, evals, failures, pc>>

(* Number of top-level statements of a source file. *)
MaxNodes == 3

FAIL_MESSAGE == "enum can be declared const"

(***************************************************************************)
(* The syntax tree (the part of the TypeScript AST the rule reads).        *)
(***************************************************************************)
Identifier(t) == [kind |-> "Identifier", text |-> t]

NumericLiteral(t) == [kind |-> "NumericLiteral", text |-> t]

StringLiteral(t) == [kind |-> "StringLiteral", text |-> t]

PropertyAccess(e, m) ==
    [kind |-> "PropertyAccessExpression", expression |-> e, name |-> Identifier(m)]

ElementAccess(e, k) ==
    [kind |-> "ElementAccessExpression", expression |-> e, argumentExpression |-> k]

Call(f, args) == [kind |-> "CallExpression", expression |-> f, arguments |-> args]

Binary(l, r) == [kind |-> "BinaryExpression", left |-> l, right |-> r]

ArrowFunction(b) == [kind |-> "ArrowFunction", body |-> b]

ObjectLiteral == [kind |-> "ObjectLiteralExpression"]

ExpressionStatement(e) == [kind |-> "ExpressionStatement", expression |-> e]

ExportAssignment(e) == [kind |-> "ExportAssignment", expression |-> e]

ReturnStatement(e) == [kind |-> "ReturnStatement", expression |-> e]

FunctionDeclaration(f, params, body) ==
    [kind |-> "FunctionDeclaration", name |-> Identifier(f),
     parameters |-> params, body |-> body]

(* initializer is <<>> when the member has none, <<e>> otherwise. *)
EnumMember(m, init) == [kind |-> "EnumMember", name |-> m, initializer |-> init]

(* start is node.getStart(sourceFile), nameEnd is node.name.getEnd(); a    *)
(* template carries 0 and PlaceAt sets both when the statement is put in   *)
(* the file.                                                               *)
EnumDeclaration(mods, n, ms) ==
    [kind |-> "EnumDeclaration", modifiers |-> mods, name |-> Identifier(n),
     members |-> ms, start |-> 0, nameEnd |-> 0]

(* ts.forEachChild: the children of a node in source order. *)
Children(node) ==
    CASE node.kind = "PropertyAccessExpression" -> <<node.expression, node.name>>
      [] node.kind = "ElementAccessExpression" ->
            <<node.expression, node.argumentExpression>>
      [] node.kind = "CallExpression" -> <<node.expression>> \o node.arguments
      [] node.kind = "BinaryExpression" -> <<node.left, node.right>>
      [] node.kind = "ArrowFunction" -> <<node.body>>
      [] node.kind = "ExpressionStatement" -> <<node.expression>>
      [] node.kind = "ExportAssignment" -> <<node.expression>>
      [] node.kind = "ReturnStatement" -> <<node.expression>>
      [] node.kind = "FunctionDeclaration" ->
            <<node.name>> \o node.parameters \o node.body
      [] OTHER -> <<>>

(* Lint.hasModifier(node.modifiers, kind) *)
hasModifier(node, keyword) == keyword \in node.modifiers

(***************************************************************************)
(* Map<string, boolean>: a function on the keys set so far; get of a       *)
(* missing key is undefined, which is falsy.                               *)
(***************************************************************************)
EmptyMap == <<>>

MapGetTruthy(m, k) == k \in DOMAIN m /\ m[k]

MapSet(m, k, v) == [x \in DOMAIN m \cup {k} |-> IF x = k THEN v ELSE m[x]]

(***************************************************************************)
(* _enums: Map<string, IEnum>, kept as the sequence of its entries in      *)
(* insertion order (the order forEach visits them).                        *)
(***************************************************************************)
HasEnum(es, n) == \E i \in 1..Len(es) : es[i].name = n

IndexOfEnum(es, n) == CHOOSE i \in 1..Len(es) : es[i].name = n

(* this._enums.get(name), for a name that is tracked *)
getEnumInScope(es, n) == es[IndexOfEnum(es, n)]

(* lines 32-38: the tracking structure of a name seen for the first time *)
newTracking(node) ==
    [name |-> node.name.text,
     isConst |-> hasModifier(node, "ConstKeyword"),
     occurences |-> <<>>,
     members |-> EmptyMap,
     canBeConst |-> TRUE]

(* _addEnum: get or create the entry, push the occurence *)
addEnum(es, node) ==
    LET es1 == IF HasEnum(es, node.name.text) THEN es ELSE Append(es, newTracking(node))
        i == IndexOfEnum(es1, node.name.text)
    IN  [es1 EXCEPT ![i].occurences = Append(@, node)]

(* track.canBeConst = false, for the entry named n *)
clearCanBeConst(es, n) == [es EXCEPT ![IndexOfEnum(es, n)].canBeConst = FALSE]

(* The names whose entry has canBeConst true. *)
Eligible(es) == {es[i].name : i \in {j \in 1..Len(es) : es[j].canBeConst}}

(***************************************************************************)
(* _isConstInitializer.  The closure variable isConst and the registry     *)
(* the callback may write are threaded through as st = [isConst, enums].   *)
(***************************************************************************)
(* Faulty variant of line 100: members.has instead of a truthy members.get *)
identifierIsConstIfPresent(members, current) == current.text \in DOMAIN members

(* line 100: members.get(current.text) is truthy *)
identifierIsConst(members, current) == MapGetTruthy(members, current.text)

(* Faulty variant of lines 105-109: the member map is read at the enum's   *)
(* name instead of the member's                                            *)
propertyAccessIsConstWrongKey(current, es) ==
    /\ current.expression.kind = "Identifier"
    /\ HasEnum(es, current.expression.text)
    /\ MapGetTruthy(getEnumInScope(es, current.expression.text).members,
                    current.expression.text)

(* lines 105-109: E.m with E a tracked enum and m a member recorded constant *)
propertyAccessIsConst(current, es) ==
    /\ current.expression.kind = "Identifier"
    /\ HasEnum(es, current.expression.text)
    /\ MapGetTruthy(getEnumInScope(es, current.expression.text).members,
                    current.name.text)

(* lines 113-119: E["m"] with E a tracked enum and m a member recorded     *)
(* constant (every element access of the inputs has its index, so          *)
(* argumentExpression is never undefined)                                  *)
elementAccessIsConst(current, es) ==
    /\ current.expression.kind = "Identifier"
    /\ HasEnum(es, current.expression.text)
    /\ current.argumentExpression.kind = "StringLiteral"
    /\ MapGetTruthy(getEnumInScope(es, current.expression.text).members,
                    current.argumentExpression.text)

(* lines 113-122: the else branch belongs to the string-literal test, so   *)
(* only an index that is no string literal clears the enum's canBeConst    *)
elementAccessInvalidate(current, es) ==
    IF /\ current.expression.kind = "Identifier"
       /\ HasEnum(es, current.expression.text)
       /\ current.argumentExpression.kind # "StringLiteral"
    THEN clearCanBeConst(es, current.expression.text)
    ELSE es

RECURSIVE initializerCb(_, _, _)
RECURSIVE initializerForEachChild(_, _, _, _)

(* the callback cb of _isConstInitializer, lines 98-129 *)
initializerCb(current, members, st) ==
    IF current.kind = "Identifier"
    THEN IF identifierIsConst(members, current) THEN st ELSE [st EXCEPT !.isConst = FALSE]
    ELSE IF current.kind = "PropertyAccessExpression"
    THEN IF propertyAccessIsConst(current, st.enums)
         THEN st
         ELSE initializerForEachChild(Children(current), 1, members,
                                      [st EXCEPT !.isConst = FALSE])
    ELSE IF current.kind = "ElementAccessExpression"
    THEN IF elementAccessIsConst(current, st.enums)
         THEN st
         ELSE initializerForEachChild(Children(current), 1, members,
                  [isConst |-> FALSE,
                   enums |-> elementAccessInvalidate(current, st.enums)])
    ELSE initializerForEachChild(Children(current), 1, members, st)

(* ts.forEachChild(current, cb), line 128 *)
initializerForEachChild(kids, i, members, st) ==
    IF i > Len(kids)
    THEN st
    ELSE initializerForEachChild(kids, i + 1, members,
                                 initializerCb(kids[i], members, st))

(* lines 96-133: returns [isConst, enums] *)
isConstInitializer(initializer, members, es) ==
    initializerCb(initializer, members, [isConst |-> TRUE, enums |-> es])

(***************************************************************************)
(* visitEnumDeclaration.  w = [enums, evals]: the registry and the record  *)
(* of every member processed (observation only, the rule does not read it):*)
(* the declaration (by its start), the enum, the member, its initializer,  *)
(* whether _isConstInitializer ran, the member's verdict, and the names    *)
(* with canBeConst true before the member and after lines 72-76.           *)
(***************************************************************************)
(* lines 72-76 for one member of the declaration node *)
visitMember(node, member, w) ==
    LET n == node.name.text
        track == getEnumInScope(w.enums, n)
        evaluated == ~track.isConst /\ member.initializer # <<>>
        r == IF evaluated
             THEN isConstInitializer(member.initializer[1], track.members, w.enums)
             ELSE [isConst |-> TRUE, enums |-> w.enums]
        isConstMember == r.isConst
        i == IndexOfEnum(r.enums, n)
        es2 == [r.enums EXCEPT ![i].canBeConst = @ /\ isConstMember,
                               ![i].members = MapSet(@, member.name, isConstMember)]
    IN  [enums |-> es2,
         evals |-> Append(w.evals,
                     [decl |-> node.start, enum |-> n, member |-> member.name,
                      initializer |-> member.initializer, evaluated |-> evaluated,
                      isConstMember |-> isConstMember,
                      before |-> Eligible(w.enums), after |-> Eligible(es2)])]

RECURSIVE visitMembers(_, _, _)
(* the loop of lines 71-77 *)
visitMembers(node, i, w) ==
    IF i > Len(node.members)
    THEN w
    ELSE visitMembers(node, i + 1, visitMember(node, node.members[i], w))

(* Faulty variant of line 80: the flag is overwritten instead of and-ed *)
exportedCanBeConstOverwritten(canBeConst, node) ==
    ~hasModifier(node, "ExportKeyword")

(* Faulty variant of line 80: the export modifier is not looked at *)
exportedCanBeConstIgnored(canBeConst, node) == canBeConst

(* line 80: exported enums are ignored *)
exportedCanBeConst(canBeConst, node) ==
    canBeConst /\ ~hasModifier(node, "ExportKeyword")

(* lines 69-81 *)
visitEnumDeclaration(node, w) ==
    LET w1 == visitMembers(node, 1, [w EXCEPT !.enums = addEnum(w.enums, node)])
        i == IndexOfEnum(w1.enums, node.name.text)
    IN  [w1 EXCEPT !.enums[i].canBeConst = exportedCanBeConst(@, node)]

(***************************************************************************)
(* _checkUsage.  node is the childIndex-th child of parent.                *)
(***************************************************************************)
(* Faulty variant of lines 85-90: the export assignment is not exempted *)
isSafeUsageWithoutExport(node, parent, childIndex) ==
    \/ parent.kind = "PropertyAccessExpression"
    \/ /\ parent.kind = "ElementAccessExpression"
       /\ childIndex = 1
       /\ parent.argumentExpression.kind = "StringLiteral"

(* lines 85-90: the usages that leave the enum alone *)
isSafeUsage(node, parent, childIndex) ==
    \/ parent.kind = "PropertyAccessExpression"
    \/ parent.kind = "ExportAssignment"
    \/ /\ parent.kind = "ElementAccessExpression"
       /\ childIndex = 1
       /\ parent.argumentExpression.kind = "StringLiteral"

(* lines 83-94 *)
checkUsage(node, parent, childIndex, es) ==
    IF isSafeUsage(node, parent, childIndex)
    THEN es
    ELSE IF HasEnum(es, node.text) THEN clearCanBeConst(es, node.text) ELSE es

(***************************************************************************)
(* walk: the traversal callback, lines 46-55.                              *)
(***************************************************************************)
RECURSIVE walkCb(_, _, _, _)
RECURSIVE walkForEachChild(_, _, _)

walkCb(node, parent, childIndex, w) ==
    IF node.kind = "Identifier"
    THEN [w EXCEPT !.enums = checkUsage(node, parent, childIndex, w.enums)]
    ELSE IF node.kind = "EnumDeclaration"
    THEN visitEnumDeclaration(node, w)
    ELSE walkForEachChild(node, 1, w)

(* ts.forEachChild(node, cb) *)
walkForEachChild(node, i, w) ==
    IF i > Len(Children(node))
    THEN w
    ELSE walkForEachChild(node, i + 1, walkCb(Children(node)[i], node, i, w))

(***************************************************************************)
(* The report after the walk, lines 57-66.                                 *)
(***************************************************************************)
(* Faulty variant of line 58: isConst is not looked at *)
shouldReportConstToo(track) == track.canBeConst

(* line 58 *)
shouldReport(track) == ~track.isConst /\ track.canBeConst

(* lines 60-63: the failure of one occurence, with its fix *)
makeFailure(occurence) ==
    [start |-> occurence.start,
     end |-> occurence.nameEnd,
     failure |-> FAIL_MESSAGE,
     fix |-> [start |-> occurence.start, length |-> 0, text |-> "const "]]

(* lines 58-65 for one entry *)
failuresOf(track) ==
    IF shouldReport(track)
    THEN [k \in 1..Len(track.occurences) |-> makeFailure(track.occurences[k])]
    ELSE <<>>

RECURSIVE reportFrom(_, _)
(* this._enums.forEach, lines 57-66 *)
reportFrom(es, i) ==
    IF i > Len(es) THEN <<>> ELSE failuresOf(es[i]) \o reportFrom(es, i + 1)

(***************************************************************************)
(* The source files walked: statements over the enums A and B, the members *)
(* X and Y, the unknown member Z and the free names f and k.               *)
(***************************************************************************)
(* 1 + 2, X, A.X, A["X"], A["Z"], A[k], f(A), f(), (() => 1)(), {} *)
Initializers ==
    { Binary(NumericLiteral("1"), NumericLiteral("2")),
      Identifier("X"),
      PropertyAccess(Identifier("A"), "X"),
      ElementAccess(Identifier("A"), StringLiteral("X")),
      ElementAccess(Identifier("A"), StringLiteral("Z")),
      ElementAccess(Identifier("A"), Identifier("k")),
      Call(Identifier("f"), <<Identifier("A")>>),
      Call(Identifier("f"), <<>>),
      Call(ArrowFunction(NumericLiteral("1")), <<>>),
      ObjectLiteral }

Modifiers == { {}, {"ExportKeyword"}, {"ConstKeyword"} }

(* enum A { X }, export enum A { X }, const enum A { X } *)
PlainDeclarations ==
    { EnumDeclaration(mods, "A", <<EnumMember("X", <<>>)>>) : mods \in Modifiers }

(* The initializers that mention A or its member X: X, A.X, A["X"], A[k] *)
SelfInitializers ==
    { Identifier("X"),
      PropertyAccess(Identifier("A"), "X"),
      ElementAccess(Identifier("A"), StringLiteral("X")),
      ElementAccess(Identifier("A"), Identifier("k")) }

(* enum B { Y = i } for every initializer, enum A { Y = i } for those that *)
(* mention A itself                                                        *)
InitializedDeclarations ==
    { EnumDeclaration({}, "B", <<EnumMember("Y", <<i>>)>>) : i \in Initializers }
    \cup { EnumDeclaration({}, "A", <<EnumMember("Y", <<i>>)>>) : i \in SelfInitializers }

(* enum A { X = 1, Y = X }, enum A { Y = X, X = 1 }, enum A { X = f(), Y = X } *)
SiblingDeclarations ==
    { EnumDeclaration({}, "A", <<EnumMember("X", <<NumericLiteral("1")>>),
                                 EnumMember("Y", <<Identifier("X")>>)>>),
      EnumDeclaration({}, "A", <<EnumMember("Y", <<Identifier("X")>>),
                                 EnumMember("X", <<NumericLiteral("1")>>)>>),
      EnumDeclaration({}, "A", <<EnumMember("X", <<Call(Identifier("f"), <<>>)>>),
                                 EnumMember("Y", <<Identifier("X")>>)>>) }

Declarations == PlainDeclarations \cup InitializedDeclarations \cup SiblingDeclarations

(* function f(k) { return A[k] }, f(A), A.X, A["X"], export = A *)
UsageStatements ==
    { FunctionDeclaration("f", <<Identifier("k")>>,
          <<ReturnStatement(ElementAccess(Identifier("A"), Identifier("k")))>>),
      ExpressionStatement(Call(Identifier("f"), <<Identifier("A")>>)),
      ExpressionStatement(PropertyAccess(Identifier("A"), "X")),
      ExpressionStatement(ElementAccess(Identifier("A"), StringLiteral("X"))),
      ExportAssignment(Identifier("A")) }

(* The text offsets of the i-th statement of the file: one statement per   *)
(* line of 100 characters, the declaration's first token (a modifier if    *)
(* there is one) at the start of the line, the one-letter name last.       *)
PlaceAt(stmt, i) ==
    IF stmt.kind = "EnumDeclaration"
    THEN LET start == 100 * (i - 1)
             keywords == (IF hasModifier(stmt, "ExportKeyword") THEN 7 ELSE 0)
                         + (IF hasModifier(stmt, "ConstKeyword") THEN 6 ELSE 0) + 5
         IN  [stmt EXCEPT !.start = start, !.nameEnd = start + keywords + 1]
    ELSE stmt

SourceFileNode == [kind |-> "SourceFile"]

(***************************************************************************)
(* The state machine.                                                      *)
(***************************************************************************)
Init ==
    /\ sourceFile = <<>>
    /\ enums = <<>>
    /\ evals = <<>>
    /\ failures = <<>>
    /\ pc = "walk"

(* walk, lines 46-55: cb on the next child of the source file *)
WalkChild(stmt) ==
    LET node == PlaceAt(stmt, Len(sourceFile) + 1)
        w == walkCb(node, SourceFileNode, Len(sourceFile) + 1,
                    [enums |-> enums, evals |-> evals])
    IN  /\ pc = "walk"
        /\ Len(sourceFile) < MaxNodes
        /\ sourceFile' = Append(sourceFile, node)
        /\ enums' = w.enums
        /\ evals' = w.evals
        /\ UNCHANGED <<failures, pc>>

(* the next child is an enum declaration: case EnumDeclaration of line 50 *)
WalkEnumDeclaration == \E d \in Declarations : WalkChild(d)

(* the next child is another statement: line 53 *)
WalkStatement == \E s \in UsageStatements : WalkChild(s)

(* walk, lines 57-66: the children are exhausted, the failures are added *)
Report ==
    /\ pc = "walk"
    /\ failures' = reportFrom(enums, 1)
    /\ pc' = "done"
    /\ UNCHANGED <<sourceFile, enums, evals>>

Next == WalkEnumDeclaration \/ WalkStatement \/ Report

Spec == Init /\ [][Next]_vars

(***************************************************************************)
(* Vocabulary of the properties, read off the walked file and the record   *)
(* of processed members rather than off the registry.                      *)
(***************************************************************************)
EnumNames == {"A", "B"}

Walked == 1..Len(sourceFile)

DeclarationsOf(n) ==
    {i \in Walked : sourceFile[i].kind = "EnumDeclaration" /\ sourceFile[i].name.text = n}

Tracked == {n \in EnumNames : DeclarationsOf(n) # {}}

Entry(n) == getEnumInScope(enums, n)

FailureStarts == {failures[k].start : k \in 1..Len(failures)}

NoFailureFor(n) == \A d \in DeclarationsOf(n) : sourceFile[d].start \notin FailureStarts

EveryOccurrenceFailed(n) ==
    \A d \in DeclarationsOf(n) : sourceFile[d].start \in FailureStarts

(* A position that leaves an enum name alone: the object of a property     *)
(* access, the target of an export assignment, the base of an indexed      *)
(* access whose index is a string literal.                                 *)
SafePosition(parent, childIndex) ==
    \/ parent.kind = "PropertyAccessExpression"
    \/ parent.kind = "ExportAssignment"
    \/ /\ parent.kind = "ElementAccessExpression"
       /\ childIndex = 1
       /\ parent.argumentExpression.kind = "StringLiteral"

RECURSIVE UsesUnsafely(_, _, _, _)
(* The name n occurs in node, outside enum declarations, in an unsafe position. *)
UsesUnsafely(node, parent, childIndex, n) ==
    IF node.kind = "Identifier"
    THEN node.text = n /\ ~SafePosition(parent, childIndex)
    ELSE IF node.kind = "EnumDeclaration"
    THEN FALSE
    ELSE \E i \in 1..Len(Children(node)) :
            UsesUnsafely(Children(node)[i], node, i, n)

(* The name n occurs in an unsafe position inside the member's initializer. *)
InitializerUsesUnsafely(member, n) ==
    /\ member.initializer # <<>>
    /\ UsesUnsafely(member.initializer[1], member, 2, n)

(* The name n occurs in an unsafe position somewhere in the statement. *)
StatementUsesUnsafely(i, n) ==
    IF sourceFile[i].kind = "EnumDeclaration"
    THEN \E m \in 1..Len(sourceFile[i].members) :
            InitializerUsesUnsafely(sourceFile[i].members[m], n)
    ELSE UsesUnsafely(sourceFile[i], SourceFileNode, i, n)

RECURSIVE ContainsUnrecognized(_)
(* The expression contains a call, a function expression or an object literal. *)
ContainsUnrecognized(node) ==
    \/ node.kind \in {"CallExpression", "ArrowFunction", "ObjectLiteralExpression"}
    \/ \E i \in 1..Len(Children(node)) : ContainsUnrecognized(Children(node)[i])

Evaluations == {k \in 1..Len(evals) : evals[k].evaluated}

(* When member k was processed, enum e was tracked. *)
TrackedAt(k, e) == \E j \in 1..k : evals[j].enum = e

(* When member k was processed, the last member m recorded for enum e was constant. *)
RecordedConstant(k, e, m) ==
    \E j \in 1..(k - 1) :
        /\ evals[j].enum = e /\ evals[j].member = m /\ evals[j].isConstMember
        /\ \A j2 \in (j + 1)..(k - 1) : ~(evals[j2].enum = e /\ evals[j2].member = m)

(* Initializer k is E.m or E["m"] with m recorded constant for E. *)
IsConstantMemberAccess(k) ==
    LET e == evals[k].initializer[1] IN
    \/ /\ e.kind = "PropertyAccessExpression"
       /\ e.expression.kind = "Identifier"
       /\ RecordedConstant(k, e.expression.text, e.name.text)
    \/ /\ e.kind = "ElementAccessExpression"
       /\ e.expression.kind = "Identifier"
       /\ e.argumentExpression.kind = "StringLiteral"
       /\ RecordedConstant(k, e.expression.text, e.argumentExpression.text)

(* enum n { ... } without modifiers *)
IsBareDeclaration(i) ==
    sourceFile[i].kind = "EnumDeclaration" /\ sourceFile[i].modifiers = {}

(***************************************************************************)
(* C1 (as stated): an unsafe usage of enum n outside enum declarations,    *)
(* before or after the declarations of n, leaves no failure for any        *)
(* occurrence of n.                                                        *)
(***************************************************************************)
C1_UnsafeUsageAnywhereSuppressesFailures ==
    pc = "done" =>
        \A n \in EnumNames :
            (\E i \in Walked : sourceFile[i].kind # "EnumDeclaration"
                               /\ StatementUsesUnsafely(i, n))
            => NoFailureFor(n)

(***************************************************************************)
(* C2: canBeConst is true when the entry is created, no member processed   *)
(* makes a name eligible, and no step of the walk sets an entry's          *)
(* canBeConst back to true.                                                *)
(***************************************************************************)
C2_CanBeConstMonotonic ==
    /\ [](\A k \in 1..Len(evals) :
            /\ evals[k].after \subseteq evals[k].before
            /\ (\A j \in 1..(k - 1) : evals[j].enum # evals[k].enum)
               => evals[k].enum \in evals[k].before)
    /\ [][\A i \in 1..Len(enums) :
            ~enums[i].canBeConst => ~enums'[i].canBeConst]_vars

(* export enum A, then two more declarations of A that clear nothing *)
C2_Witness ==
    /\ Len(sourceFile) = 3
    /\ \A i \in Walked : i \in DeclarationsOf("A")
    /\ "ExportKeyword" \in sourceFile[1].modifiers
    /\ IsBareDeclaration(2) /\ IsBareDeclaration(3)
    /\ \A k \in 1..Len(evals) : evals[k].isConstMember
    /\ ~Entry("A").canBeConst

(***************************************************************************)
(* C3: the member map of an entry holds the member names of all the        *)
(* declarations of its name, and when one of them is exported the entry    *)
(* is not eligible and no occurrence gets a failure.                       *)
(***************************************************************************)
C3_MergeUnionsMembersExportDisqualifies ==
    /\ \A n \in EnumNames : HasEnum(enums, n) <=> n \in Tracked
    /\ \A n \in Tracked :
        /\ DOMAIN Entry(n).members =
             UNION { {sourceFile[i].members[m].name : m \in 1..Len(sourceFile[i].members)} :
                     i \in DeclarationsOf(n) }
        /\ (\E i \in DeclarationsOf(n) : "ExportKeyword" \in sourceFile[i].modifiers)
           => ~Entry(n).canBeConst /\ NoFailureFor(n)

(* three declarations of A with members X and Y, only the middle one exported *)
C3_Witness ==
    /\ pc = "done"
    /\ DeclarationsOf("A") = {1, 2, 3}
    /\ "ExportKeyword" \in sourceFile[2].modifiers
    /\ IsBareDeclaration(1) /\ IsBareDeclaration(3)
    /\ DOMAIN Entry("A").members = {"X", "Y"}
    /\ \A k \in 1..Len(evals) : evals[k].isConstMember

(***************************************************************************)
(* C4 (as stated): an enum with no member initializers, no export and no   *)
(* const modifier ends eligible and every occurrence gets a failure.       *)
(***************************************************************************)
HasNoInitializersNorModifiers(n) ==
    \A i \in DeclarationsOf(n) :
        /\ sourceFile[i].modifiers = {}
        /\ \A m \in 1..Len(sourceFile[i].members) :
              sourceFile[i].members[m].initializer = <<>>

C4_PlainEnumAlwaysEligible ==
    pc = "done" =>
        \A n \in Tracked :
            HasNoInitializersNorModifiers(n)
            => Entry(n).canBeConst /\ EveryOccurrenceFailed(n)

(***************************************************************************)
(* C4 (amended): ... and whose name is nowhere in the file used in an      *)
(* unsafe position: it ends eligible and every occurrence gets a failure   *)
(* with a fix.                                                             *)
(***************************************************************************)
C4_PlainUnusedEnumEligible ==
    pc = "done" =>
        \A n \in Tracked :
            (HasNoInitializersNorModifiers(n)
             /\ \A i \in Walked : ~StatementUsesUnsafely(i, n))
            => /\ Entry(n).canBeConst
               /\ EveryOccurrenceFailed(n)
               /\ \A k \in 1..Len(failures) : failures[k].fix.text = "const "

(* enum A { X } with the safe usages A.X and export = A *)
C4_Witness ==
    /\ pc = "done"
    /\ Len(sourceFile) = 3
    /\ DeclarationsOf("A") # {}
    /\ HasNoInitializersNorModifiers("A")
    /\ \E i \in Walked : sourceFile[i].kind = "ExportAssignment"
    /\ \E i \in Walked : sourceFile[i].kind = "ExpressionStatement"
    /\ \A i \in Walked : ~StatementUsesUnsafely(i, "A")
    /\ EveryOccurrenceFailed("A")

(***************************************************************************)
(* C5: the failures are exactly one per occurrence of every entry that is  *)
(* not const and can be, none for the others; each spans from the          *)
(* declaration's start to the end of its name, carries the message and a   *)
(* zero-length replacement inserting "const " at the start.  A single      *)
(* declaration without modifiers or initializers yields exactly one.       *)
(***************************************************************************)
C5_FailuresExactlyEligibleOccurrences ==
    pc = "done" =>
        /\ \A n \in Tracked : \A d \in DeclarationsOf(n) :
              Cardinality({k \in 1..Len(failures) : failures[k].start = sourceFile[d].start})
              = IF ~Entry(n).isConst /\ Entry(n).canBeConst THEN 1 ELSE 0
        /\ \A k \in 1..Len(failures) :
              \E d \in Walked :
                 /\ sourceFile[d].kind = "EnumDeclaration"
                 /\ failures[k].start = sourceFile[d].start
                 /\ failures[k].end = sourceFile[d].nameEnd
                 /\ failures[k].end > failures[k].start
                 /\ failures[k].failure = "enum can be declared const"
                 /\ failures[k].fix =
                       [start |-> sourceFile[d].start, length |-> 0, text |-> "const "]
        /\ (Len(sourceFile) = 1 /\ DeclarationsOf("A") = {1}
              /\ HasNoInitializersNorModifiers("A"))
           => Len(failures) = 1

(* const enum A { X } and an eligible enum B: one failure, for B *)
C5_Witness ==
    /\ pc = "done"
    /\ Tracked = {"A", "B"}
    /\ Entry("A").isConst
    /\ Entry("B").canBeConst
    /\ Len(failures) = 1

(***************************************************************************)
(* C6: an initializer that is a bare sibling name is judged constant iff   *)
(* that name was recorded constant by an earlier member of the same        *)
(* declaration or of an earlier merged declaration; otherwise (undeclared, *)
(* declared later, recorded non-constant) it is judged non-constant and    *)
(* the enum is not eligible.                                               *)
(***************************************************************************)
C6_SiblingReferenceConstantIffRecorded ==
    \A k \in Evaluations :
        evals[k].initializer[1].kind = "Identifier"
        => /\ evals[k].isConstMember
              <=> RecordedConstant(k, evals[k].enum, evals[k].initializer[1].text)
           /\ ~evals[k].isConstMember
              => /\ evals[k].enum \notin evals[k].after
                 /\ ~Entry(evals[k].enum).canBeConst

(* enum A { X }, enum A { Y = X }: constant by the earlier merged           *)
(* declaration; then a declaration whose sibling reference is not constant *)
C6_Witness ==
    /\ \E k \in Evaluations :
          /\ evals[k].initializer[1].kind = "Identifier"
          /\ evals[k].isConstMember
          /\ \E j \in 1..(k - 1) :
                /\ evals[j].decl # evals[k].decl
                /\ evals[j].enum = evals[k].enum
                /\ evals[j].member = evals[k].initializer[1].text
    /\ \E k \in Evaluations :
          /\ evals[k].initializer[1].kind = "Identifier"
          /\ ~evals[k].isConstMember

(***************************************************************************)
(* C7: an initializer A.X or A["X"], with X recorded constant for the      *)
(* tracked enum A, is judged constant and clears no canBeConst; after      *)
(* enum A { X ... } (X constant) followed by enum B { Y = A.X } or by the  *)
(* merged enum A { Y = A.X }, every occurrence gets a failure and every    *)
(* member is recorded constant.                                            *)
(***************************************************************************)
C7_ConstantMemberAccessIsConstant ==
    /\ \A k \in Evaluations :
          IsConstantMemberAccess(k)
          => evals[k].isConstMember /\ evals[k].after = evals[k].before
    /\ (/\ pc = "done"
        /\ Len(sourceFile) = 2
        /\ IsBareDeclaration(1) /\ IsBareDeclaration(2)
        /\ sourceFile[1].name.text = "A"
        /\ \A k \in 1..Len(evals) :
              evals[k].decl = sourceFile[1].start => evals[k].isConstMember
        /\ Len(sourceFile[2].members) = 1
        /\ sourceFile[2].members[1].initializer \in
              { <<PropertyAccess(Identifier("A"), "X")>>,
                <<ElementAccess(Identifier("A"), StringLiteral("X"))>> })
       => /\ sourceFile[1].start \in FailureStarts
          /\ sourceFile[2].start \in FailureStarts
          /\ Len(failures) = 2
          /\ \A n \in Tracked : \A m \in DOMAIN Entry(n).members : Entry(n).members[m]

(* enum A { X }, enum A { Y = A.X }, enum B { Y = A["X"] }: three failures *)
C7_Witness ==
    /\ pc = "done"
    /\ Len(sourceFile) = 3
    /\ DeclarationsOf("A") = {1, 2}
    /\ DeclarationsOf("B") = {3}
    /\ sourceFile[2].members[1].initializer = <<PropertyAccess(Identifier("A"), "X")>>
    /\ sourceFile[3].members[1].initializer =
          <<ElementAccess(Identifier("A"), StringLiteral("X"))>>
    /\ Len(failures) = 3

(***************************************************************************)
(* C8 (as stated): an initializer E[k] whose base is a tracked enum and    *)
(* whose index is not a string literal naming a member recorded constant   *)
(* leaves E not eligible and is judged non-constant.                       *)
(***************************************************************************)
C8_UnresolvedIndexedAccessDisqualifies ==
    \A k \in Evaluations :
        LET e == evals[k].initializer[1] IN
        (/\ e.kind = "ElementAccessExpression"
         /\ e.expression.kind = "Identifier"
         /\ TrackedAt(k, e.expression.text)
         /\ ~(/\ e.argumentExpression.kind = "StringLiteral"
              /\ RecordedConstant(k, e.expression.text, e.argumentExpression.text)))
        => e.expression.text \notin evals[k].after /\ ~evals[k].isConstMember

(***************************************************************************)
(* C9 (as stated): a tracked enum whose name occurs in an unsafe position  *)
(* inside a member initializer is not eligible after that initializer is   *)
(* evaluated and gets no failure.                                          *)
(***************************************************************************)
C9_UnsafeReferenceInInitializerDisqualifies ==
    \A k \in Evaluations : \A n \in EnumNames :
        (/\ TrackedAt(k, n)
         /\ InitializerUsesUnsafely(
               [name |-> evals[k].member, initializer |-> evals[k].initializer,
                kind |-> "EnumMember"], n))
        => /\ n \notin evals[k].after
           /\ pc = "done" => NoFailureFor(n)

(***************************************************************************)
(* C10 (as stated): every initializer that contains a function call, a     *)
(* function expression or an object literal is judged non-constant.        *)
(***************************************************************************)
C10_UnrecognizedShapeIsNonConstant ==
    \A k \in Evaluations :
        ContainsUnrecognized(evals[k].initializer[1]) => ~evals[k].isConstMember

====
